---- MODULE Spec2Model ----
(***************************************************************************)
(* Idempotent training dispatch of AI_Drug_Discovery:                      *)
(*   utils/signature.py            compute_training_signature              *)
(*   utils/training_types.py       TrainingConfig                          *)
(*   utils/training_orchestrator.py TrainingOrchestrator                   *)
(*   train_dispatch_pure.py        compute_composite_run_key, main         *)
(*                                                                         *)
(* A Python dict (a parsed YAML file, a TrainingConfig's __dict__) is a    *)
(* sequence of <<key, value>> pairs in insertion order with distinct keys. *)
(* A value is [kind |-> "str" | "list", v |-> sequence of strings]: the    *)
(* pieces of a string, or the items of a list.                             *)
(* sha256 is idealised as injective: a digest is the byte stream that was  *)
(* fed to the hash, so two digests are equal exactly when the streams are. *)
(***************************************************************************)
EXTENDS Naturals, Sequences, FiniteSets, TLC

\* ------------------------------------------------------------------ bounds
\* dispatches run one after the other, and the files of configs/ in each
MaxDispatches == 2
MaxBatch == 2
\* files of configs/ when a single dispatch is explored
MaxSingleBatch == 3
\* run records the tracking store may hold
MaxRuns == 3
\* fields of a config handed to compute_training_signature on its own
MaxSigFields == 2

\* ------------------------------------------------------------- python data
Str(s) == [kind |-> "str", v |-> <<s>>]
List(q) == [kind |-> "list", v |-> q]

Keys(d) == {d[i][1] : i \in DOMAIN d}
Has(d, k) == k \in Keys(d)
Val(d, k) == d[CHOOSE i \in DOMAIN d : d[i][1] = k][2]

\* bool(v): the empty string and the empty list are falsy
Truthy(val) == val.v # <<>>

\* every key the model uses, in the order Python compares strings
SortedKeys ==
  <<"composite_run_key", "config_path", "data_path", "lr", "model_script",
    "model_type", "signature", "signature_files">>

\* sorted(d.items()) / json.dumps(d, sort_keys=True): the pairs by ascending key
RECURSIVE SortFrom(_, _)
SortFrom(d, n) ==
  IF n > Len(SortedKeys) THEN <<>>
  ELSE (IF Has(d, SortedKeys[n]) THEN <<<<SortedKeys[n], Val(d, SortedKeys[n])>>>>
        ELSE <<>>) \o SortFrom(d, n + 1)
SortItems(d) == SortFrom(d, 1)

\* a mutant of the serialisation: the pairs in insertion order (sort_keys dropped)
SerialItems_Unsorted(d) == d
\* the order in which json.dumps(..., sort_keys=True) emits the pairs
SerialItems(d) == SortItems(d)

\* {k: v for k, v in config.items() if k != "data_path"}
DropDataPath(d) == SelectSeq(d, LAMBDA kv : kv[1] # "data_path")

\* the JSON text of one value, as tokens
RECURSIVE JoinComma(_)
JoinComma(q) ==
  IF q = <<>> THEN <<>>
  ELSE IF Len(q) = 1 THEN <<q[1]>>
  ELSE <<q[1], ",">> \o JoinComma(Tail(q))
JsonValue(val) ==
  IF val.kind = "str" THEN val.v ELSE <<"[">> \o JoinComma(val.v) \o <<"]">>

\* the JSON text of a dict whose pairs are already in emission order
RECURSIVE JsonPairs(_)
JsonPairs(items) ==
  IF items = <<>> THEN <<>>
  ELSE <<items[1][1], ":">> \o JsonValue(items[1][2])
       \o (IF Len(items) > 1 THEN <<",">> ELSE <<>>) \o JsonPairs(Tail(items))
JsonDumps(d) == <<"{">> \o JsonPairs(SerialItems(d)) \o <<"}">>

\* ------------------------------------------------------------- file system
Missing == <<"<missing>">>
\* the bytes of every file of file_paths, in order; open() raises on a missing one
AllReadable(fs, paths) == \A i \in DOMAIN paths : fs[paths[i]] # Missing
RECURSIVE ReadAll(_, _)
ReadAll(fs, paths) ==
  IF paths = <<>> THEN <<>> ELSE fs[paths[1]] \o ReadAll(fs, Tail(paths))

\* a mutant: a file that cannot be opened is left out of the digest
RECURSIVE ReadReadable(_, _)
ReadReadable(fs, paths) ==
  IF paths = <<>> THEN <<>>
  ELSE (IF fs[paths[1]] = Missing THEN <<>> ELSE fs[paths[1]])
       \o ReadReadable(fs, Tail(paths))
compute_training_signature_SkipMissing(config, file_paths, fs) ==
  JsonDumps(DropDataPath(config)) \o ReadReadable(fs, file_paths)
\* compute_training_signature(config, file_paths): the digest, or the exception
FileNotFoundError == <<"FileNotFoundError">>
compute_training_signature(config, file_paths, fs) ==
  IF AllReadable(fs, file_paths)
  THEN JsonDumps(DropDataPath(config)) \o ReadAll(fs, file_paths)
  ELSE FileNotFoundError

\* ------------------------------------------------------ configuration files
\* what yaml.safe_load returns for the files that configs/ may hold
YamlRF ==
  << <<"model_type", Str("rf")>>, <<"model_script", Str("models.rf.train")>>,
     <<"signature_files", List(<<"a.py">>)>> >>
YamlXGB ==
  << <<"signature_files", List(<<"b.py">>)>>, <<"model_type", Str("xgb")>>,
     <<"lr", Str("0.1")>>, <<"model_script", Str("models.xgb.train")>> >>
YamlNoType ==
  << <<"model_script", Str("models.rf.train")>>,
     <<"signature_files", List(<<"a.py">>)>> >>
\* signature_files is present, and an empty list
YamlNoFiles ==
  << <<"model_type", Str("rf")>>, <<"model_script", Str("models.rf.train")>>,
     <<"signature_files", List(<<>>)>> >>
\* a file that is not YAML: yaml.safe_load raises yaml.YAMLError
YAMLError == << <<"!YAMLError", Str("")>> >>
Catalogue == {YamlRF, YamlXGB, YamlNoType, YamlNoFiles, YAMLError}
Paths == {"a.py", "b.py"}

RECURSIVE SeqsUpTo(_, _)
SeqsUpTo(S, n) ==
  IF n = 0 THEN {<<>>}
  ELSE LET shorter == SeqsUpTo(S, n - 1)
       IN shorter \cup {Append(q, x) : q \in {r \in shorter : Len(r) = n - 1}, x \in S}
\* the contents glob.glob("configs/*.yaml") may find: up to n of these files
ConfigDirs(files, n) == SeqsUpTo(files, n) \ {<<>>}

\* TrainingConfig.__post_init__ accepts the three required fields
KnownFields == <<"model_type", "model_script", "signature_files">>
\* a mutant: a required field has to be present, and may be empty
PostInitOk_PresenceOnly(d) == \A n \in DOMAIN KnownFields : Has(d, KnownFields[n])
PostInitOk(d) ==
  \A n \in DOMAIN KnownFields :
     Has(d, KnownFields[n]) /\ Truthy(Val(d, KnownFields[n]))
\* TrainingConfig.from_dict: __dict__ holds the dataclass fields in declaration
\* order, then the extra keys in the order of the dict
from_dict(d) ==
  [n \in DOMAIN KnownFields |-> <<KnownFields[n], Val(d, KnownFields[n])>>]
  \o SelectSeq(d, LAMBDA kv : kv[1] \notin {KnownFields[n] : n \in DOMAIN KnownFields})

\* the discovery loop of main: the files that give a TrainingConfig, in order
RECURSIVE Discover(_)
Discover(dir) ==
  IF dir = <<>> THEN <<>>
  ELSE (IF PostInitOk(dir[1]) THEN <<from_dict(dir[1])>> ELSE <<>>)
       \o Discover(Tail(dir))

\* main lines 84-86: the place of the first file yaml.safe_load raises on, else 0;
\* the call is outside the try block
FirstBroken(dir) ==
  IF \E k \in DOMAIN dir : dir[k] = YAMLError
  THEN CHOOSE k \in DOMAIN dir :
         dir[k] = YAMLError /\ \A m \in 1..(k - 1) : dir[m] # YAMLError
  ELSE 0

\* -------------------------------------------------------- composite run key
\* str(list of (key, value) tuples), as tokens
RECURSIVE PyRepr(_)
PyRepr(items) ==
  IF items = <<>> THEN <<>>
  ELSE <<"(", items[1][1], ",">> \o JsonValue(items[1][2]) \o <<")">>
       \o PyRepr(Tail(items))
Unavailable == "unavailable"
\* compute_composite_run_key: git_sha[:8] : sha256(str(sorted(__dict__.items())))[:8]
\* : sha256(str(st_mtime))[:8], with the sentinels of the two bare excepts
compute_composite_run_key(config, e) ==
  <<IF e.git = Unavailable THEN "no-git" ELSE e.git, ":">>
  \o PyRepr(SortItems(config))
  \o <<":", IF e.mtime = Unavailable THEN "no-data" ELSE e.mtime>>

\* ------------------------------------------------------------------- state
VARIABLES
  runs,     \* the MLflow store: the run records, in creation order
  proc,     \* each dispatch process: its position in main and its locals
  env,      \* [git, mtime, data]: git rev-parse HEAD, the st_mtime and the content
            \* of the data file
  fs,       \* the bytes of each file a config may list in signature_files
  started,  \* dispatches started so far
  last,     \* history: the dispatch that finished last, and whether a registry
            \* query has failed so far
  bound,    \* the exploration: [dispatches, batch, files, results], fixed by the
            \* initial state
  sigIn,    \* arguments of the calls of compute_training_signature under SpecSig
  sigOut    \* what those calls returned
vars == <<runs, proc, env, fs, started, last, bound, sigIn, sigOut>>

Procs == {1, 2}
NoTag == <<>>
NoExperiment == "Default"

\* a run as mlflow.start_run() creates it in the active experiment
\* (history: by, j, seen name the process, its config and the number of records
\* the store held when that process made its existence check)
NewRun(exp, p, j, seen) ==
  [exp |-> exp, status |-> "RUNNING", ckey |-> NoTag, sig |-> NoTag,
   params |-> FALSE, metrics |-> FALSE, trainCalls |-> 0, trainOk |-> FALSE,
   result |-> "none", by |-> p, j |-> j, seen |-> seen]

NoQuery ==
  [at |-> "none", j |-> 0, keys |-> <<>>, ok |-> TRUE, hits |-> 0, result |-> FALSE]
\* a process before main starts: no experiment set, no run active
Fresh ==
  [pc |-> "idle", entry |-> "none", dir |-> <<>>, configs |-> <<>>, i |-> 0,
   toTrain |-> <<>>, kept |-> <<>>, results |-> <<>>, activeExp |-> NoExperiment,
   run |-> 0, runs0 |-> 0, attempted |-> <<>>, failed |-> {}, skipped |-> {},
   nTrain |-> 0, seen |-> 0, tries |-> 0, importable |-> TRUE, q |-> NoQuery]

\* mlflow.search_runs(filter_string="tags.<key> = '<value>'") with no experiment
\* given searches the experiment that is active in the calling process: the one
\* of the last mlflow.set_experiment (training_orchestrator.py:135), else the
\* default one.  Runs of every status match.
SearchRuns(rs, exp, key, value) ==
  {n \in DOMAIN rs :
     /\ rs[n].exp = exp
     /\ IF key = "composite_run_key" THEN rs[n].ckey = value ELSE rs[n].sig = value}

\* a mutant: a failed query counts as "found"
run_exists_with_tag_FailFound(hits, queryOk) == IF queryOk THEN hits # {} ELSE TRUE
\* run_exists_with_tag: not existing_runs.empty, and False when the query raised
run_exists_with_tag(hits, queryOk) == IF queryOk THEN hits # {} ELSE FALSE

\* run_training line 123: not force_retrain and check_if_already_trained(config)
MustSkip(force_retrain, already) == ~force_retrain /\ already

\* a mutant: the with block does not end the run when its body raises
EndRun_LeakOnError(rs, n, status) ==
  IF status = "FAILED" THEN rs ELSE [rs EXCEPT ![n].status = status]
\* a mutant: ending a run sets the status of every run of its experiment
EndRun_WholeExperiment(rs, n, status) ==
  [k \in DOMAIN rs |->
     IF rs[k].exp = rs[n].exp THEN [rs[k] EXCEPT !.status = status] ELSE rs[k]]
\* leaving "with mlflow.start_run():" ends the run: FINISHED, or FAILED on an exception
EndRun(rs, n, status) == [rs EXCEPT ![n].status = status]

\* the loop of train_multiple_configs moves to the next config, or returns
NextConfig(st) ==
  IF st.i >= Len(st.toTrain) THEN [st EXCEPT !.pc = "done", !.run = 0]
  ELSE [st EXCEPT !.pc = "rt_check", !.i = st.i + 1, !.run = 0]

\* a mutant: the exception leaves train_multiple_configs and ends main
OnException_Propagate(st) == [st EXCEPT !.pc = "crashed", !.run = 0,
                                        !.failed = st.failed \cup {st.i}]
\* train_multiple_configs lines 225-227: except Exception: print, continue
OnException(st) == NextConfig([st EXCEPT !.failed = st.failed \cup {st.i}])

\* a mutant: a config found in the registry is trained all the same
OnReturn_TrainAfterSkip(st, result) ==
  IF result THEN NextConfig([st EXCEPT !.results = Append(st.results, st.i)])
  ELSE [st EXCEPT !.skipped = st.skipped \cup {st.i}, !.pc = "rt_load"]
\* run_training returned (None or a result)
OnReturn(st, result) ==
  NextConfig(IF result THEN [st EXCEPT !.results = Append(st.results, st.i)]
             ELSE [st EXCEPT !.skipped = st.skipped \cup {st.i}])

\* ----------------------------------------------------------------- actions
ModelType(c) == Val(c, "model_type").v[1]
SignatureFiles(c) == Val(c, "signature_files").v
\* one call of run_exists_with_tag, with the tag key it was given
Query(st, at, key, ok, hits) ==
  [at |-> at, j |-> st.i, keys |-> <<key>>, ok |-> ok, hits |-> Cardinality(hits),
   result |-> run_exists_with_tag(hits, ok)]

\* a mutant: the legacy signature is queried whatever the config carries
TagKeyFor_AlwaysLegacy(c) == "signature"
\* check_if_already_trained lines 90-97: the tag the registry is asked for
TagKeyFor(c) ==
  IF Has(c, "composite_run_key") THEN "composite_run_key" ELSE "signature"

\* what a training function may hand back (line 156): a TrainingResult as the
\* contract wants it, one whose metrics are not a TrainingMetrics (or that is
\* no TrainingResult at all), one whose model is None
Results == {"valid", "bad_metrics", "no_model"}

\* main lines 56-98: a new process; dvc pull, load the data, discover the configs
M_Start(p) ==
  /\ proc[p].pc = "idle"
  /\ started < bound.dispatches
  /\ \E dir \in ConfigDirs(bound.files, bound.batch) :
       LET broken == FirstBroken(dir)
           configs == Discover(IF broken = 0 THEN dir ELSE SubSeq(dir, 1, broken - 1))
           st == [Fresh EXCEPT !.entry = "main", !.dir = dir,
                               !.configs = configs, !.runs0 = Len(runs)]
       IN proc' = [proc EXCEPT ![p] =
                     IF broken # 0 THEN [st EXCEPT !.pc = "aborted"]
                     ELSE IF configs = <<>> THEN [st EXCEPT !.pc = "done"]
                     ELSE [st EXCEPT !.pc = "precheck", !.i = 1]]
  /\ started' = started + 1
  /\ UNCHANGED <<runs, env, fs, last, bound, sigIn, sigOut>>

\* main lines 104-121: one turn of the idempotency loop
M_Precheck(p) ==
  /\ proc[p].pc = "precheck"
  /\ \E queryOk \in BOOLEAN :
       LET st == proc[p]
           c == st.configs[st.i]
           key == compute_composite_run_key(c, env)
           hits == SearchRuns(runs, st.activeExp, "composite_run_key", key)
           q == Query(st, "precheck", "composite_run_key", queryOk, hits)
           st1 == IF q.result THEN [st EXCEPT !.q = q]
                  ELSE [st EXCEPT !.q = q,
                          !.toTrain = Append(st.toTrain,
                             Append(c, <<"composite_run_key",
                                         [kind |-> "str", v |-> key]>>)),
                          !.kept = Append(st.kept, st.i)]
       IN /\ proc' = [proc EXCEPT ![p] =
                     IF st.i < Len(st.configs) THEN [st1 EXCEPT !.i = st.i + 1]
                     ELSE IF st1.toTrain = <<>> THEN [st1 EXCEPT !.pc = "done"]
                     ELSE [st1 EXCEPT !.pc = "rt_check", !.i = 1]]
       /\ last' = [last EXCEPT !.queryFailed = @ \/ ~queryOk]
  /\ UNCHANGED <<runs, env, fs, started, bound, sigIn, sigOut>>

\* train_multiple_configs called with configs that carry no composite_run_key
API_Start(p) ==
  /\ proc[p].pc = "idle"
  /\ started < bound.dispatches
  /\ \E dir \in ConfigDirs(bound.files, bound.batch) :
       LET configs == Discover(dir)
           st == [Fresh EXCEPT !.entry = "api", !.dir = dir,
                               !.configs = configs, !.runs0 = Len(runs)]
       IN /\ FirstBroken(dir) = 0
          /\ proc' = [proc EXCEPT ![p] =
                     IF configs = <<>> THEN [st EXCEPT !.pc = "done"]
                     ELSE [st EXCEPT !.pc = "rt_check", !.i = 1,
                                     !.toTrain = configs]]
  /\ started' = started + 1
  /\ UNCHANGED <<runs, env, fs, last, bound, sigIn, sigOut>>

\* run_training lines 122-127, check_if_already_trained lines 89-97
RT_Check(p) ==
  /\ proc[p].pc = "rt_check"
  /\ \E queryOk \in BOOLEAN :
       LET st0 == proc[p]
           st == [st0 EXCEPT !.attempted = Append(st0.attempted, st0.i),
                             !.seen = Len(runs)]
           c == st.toTrain[st.i]
           composite == TagKeyFor(c) = "composite_run_key"
           signature == compute_training_signature(c, SignatureFiles(c), fs)
           hits == IF composite
                   THEN SearchRuns(runs, st.activeExp, "composite_run_key",
                                   Val(c, "composite_run_key").v)
                   ELSE SearchRuns(runs, st.activeExp, "signature", signature)
           q == Query(st, "rt_check", TagKeyFor(c), queryOk, hits)
       IN /\ proc' = [proc EXCEPT ![p] =
                     IF ~composite /\ signature = FileNotFoundError
                     THEN OnException(st)
                     ELSE IF MustSkip(FALSE, q.result)
                     THEN OnReturn([st EXCEPT !.q = q], FALSE)
                     ELSE [st EXCEPT !.q = q, !.pc = "rt_load"]]
       /\ last' = [last EXCEPT !.queryFailed = @ \/ ~queryOk]
  /\ UNCHANGED <<runs, env, fs, started, bound, sigIn, sigOut>>

\* a mutant: the run is opened before the training function is loaded, so a
\* load that raises leaves a FAILED run record
RT_Load_InsideRun(p) ==
  /\ proc[p].pc = "rt_load"
  /\ \E loaded \in BOOLEAN :
       LET st == proc[p]
       IN IF loaded
          THEN /\ runs' = runs
               /\ proc' = [proc EXCEPT ![p] =
                             [st EXCEPT !.pc = "rt_start", !.q = NoQuery,
                                        !.activeExp = ModelType(st.toTrain[st.i])]]
          ELSE /\ runs' = Append(runs, [NewRun(st.activeExp, p, st.i, st.seen)
                                          EXCEPT !.status = "FAILED"])
               /\ proc' = [proc EXCEPT ![p] = OnException([st EXCEPT !.q = NoQuery])]
  /\ UNCHANGED <<env, fs, started, last, bound, sigIn, sigOut>>
\* run_training lines 129-135: load_training_function, mlflow.set_experiment;
\* either may raise
RT_Load(p) ==
  /\ proc[p].pc = "rt_load"
  /\ \E loaded \in BOOLEAN :
       LET st == proc[p]
       IN proc' = [proc EXCEPT ![p] =
                     IF loaded
                     THEN [st EXCEPT !.pc = "rt_start", !.q = NoQuery,
                                     !.activeExp = ModelType(st.toTrain[st.i])]
                     ELSE OnException([st EXCEPT !.q = NoQuery])]
  /\ UNCHANGED <<runs, env, fs, started, last, bound, sigIn, sigOut>>

\* a mutant: a lease keyed by the experiment is taken before the run is opened
MayStartRun_Lease(p) ==
  \A o \in Procs \ {p} :
     proc[o].run = 0 \/ proc[o].activeExp # proc[p].activeExp
\* run_training lines 137-138: the run is opened unconditionally, no lock or lease
MayStartRun(p) == TRUE

\* run_training line 138: mlflow.start_run() creates the run record, or raises
RT_StartRun(p) ==
  /\ proc[p].pc = "rt_start"
  /\ MayStartRun(p)
  /\ Len(runs) < MaxRuns
  /\ \E opened \in BOOLEAN :
       LET st == proc[p]
       IN IF opened
          THEN /\ runs' = Append(runs, NewRun(st.activeExp, p, st.i, st.seen))
               /\ proc' = [proc EXCEPT ![p] = [st EXCEPT !.pc = "rt_tag",
                                                         !.run = Len(runs) + 1]]
          ELSE /\ runs' = runs
               /\ proc' = [proc EXCEPT ![p] = OnException(st)]
  /\ UNCHANGED <<env, fs, started, last, bound, sigIn, sigOut>>

\* run_training lines 139-153: the two tags and the parameters; the store may
\* refuse the first write, and the signature computation may raise
RT_Tag(p) ==
  /\ proc[p].pc = "rt_tag"
  /\ \E written \in BOOLEAN :
       LET st == proc[p]
           c == st.toTrain[st.i]
           n == st.run
           tagged == IF Has(c, "composite_run_key")
                     THEN [runs EXCEPT ![n].ckey = Val(c, "composite_run_key").v]
                     ELSE runs
           signature == compute_training_signature(c, SignatureFiles(c), fs)
       IN IF ~written
          THEN /\ runs' = EndRun(runs, n, "FAILED")
               /\ proc' = [proc EXCEPT ![p] = OnException(st)]
          ELSE IF signature = FileNotFoundError
          THEN /\ runs' = EndRun(tagged, n, "FAILED")
               /\ proc' = [proc EXCEPT ![p] = OnException(st)]
          ELSE /\ runs' = [tagged EXCEPT ![n].sig = signature, ![n].params = TRUE]
               /\ proc' = [proc EXCEPT ![p] = [st EXCEPT !.pc = "rt_train"]]
  /\ UNCHANGED <<env, fs, started, last, bound, sigIn, sigOut>>

\* run_training line 156: result = train_func(X_train, y_train, config); what it
\* returns is not validated
RT_Train(p) ==
  /\ proc[p].pc = "rt_train"
  /\ \E returned \in BOOLEAN, result \in bound.results :
       LET st0 == proc[p]
           st == [st0 EXCEPT !.nTrain = st0.nTrain + 1]
           n == st.run
           called == [runs EXCEPT ![n].trainCalls = runs[n].trainCalls + 1,
                                  ![n].trainOk = returned,
                                  ![n].result = IF returned THEN result ELSE "none"]
       IN IF returned
          THEN /\ runs' = called
               /\ proc' = [proc EXCEPT ![p] = [st EXCEPT !.pc = "rt_log"]]
          ELSE /\ runs' = EndRun(called, n, "FAILED")
               /\ proc' = [proc EXCEPT ![p] = OnException(st)]
  /\ UNCHANGED <<env, fs, started, last, bound, sigIn, sigOut>>

\* run_training lines 158-172: metrics, model, model_* tags, return result;
\* result.metrics.to_dict() raises when the metrics are no TrainingMetrics, and
\* _log_model falls back to pickle, which takes a model that is None
RT_Log(p) ==
  /\ proc[p].pc = "rt_log"
  /\ \E logged \in BOOLEAN :
       LET st == proc[p]
           n == st.run
       IN IF logged /\ runs[n].result # "bad_metrics"
          THEN /\ runs' = EndRun([runs EXCEPT ![n].metrics = TRUE], n, "FINISHED")
               /\ proc' = [proc EXCEPT ![p] = OnReturn(st, TRUE)]
          ELSE /\ runs' = EndRun(runs, n, "FAILED")
               /\ proc' = [proc EXCEPT ![p] = OnException(st)]
  /\ UNCHANGED <<env, fs, started, last, bound, sigIn, sigOut>>

\* the exit status of the process (lines 152-153): main returned, or an
\* exception left it
ExitCode(st) == IF st.pc = "aborted" THEN 1 ELSE 0

\* the summary main prints after train_multiple_configs (lines 131-139)
Summary(st) ==
  [processed |-> Len(st.configs), trained |-> Len(st.results),
   skipped |-> Len(st.configs) - Len(st.results)]

\* main returns (lines 98, 121, 149) or an exception has left it, and the
\* process ends
M_Exit(p) ==
  /\ proc[p].pc \in {"done", "aborted"}
  /\ last' = [valid |-> TRUE, entry |-> proc[p].entry, dir |-> proc[p].dir,
              env |-> env, queryFailed |-> last.queryFailed,
              allTrained |-> Len(proc[p].results) = Len(proc[p].dir)]
  /\ proc' = [proc EXCEPT ![p] = Fresh]
  /\ UNCHANGED <<runs, env, fs, started, bound, sigIn, sigOut>>

Step(p) ==
  \/ M_Start(p)
  \/ M_Precheck(p)
  \/ API_Start(p)
  \/ RT_Check(p)
  \/ RT_Load(p)
  \/ RT_StartRun(p)
  \/ RT_Tag(p)
  \/ RT_Train(p)
  \/ RT_Log(p)
  \/ M_Exit(p)

\* ------------------------------------------------------------ the two DAGs
\* default_args: 'retries': 1
Retries == 1
\* the paths the discovery tasks find, by place in the directory
PathName(k) ==
  <<"configs/1.yaml", "configs/2.yaml", "configs/3.yaml", "configs/4.yaml">>[k]
\* discover_training_configs: yaml.safe_load of each file, plus config['config_path']
WithPath(dir) ==
  [k \in DOMAIN dir |-> Append(dir[k], <<"config_path", Str(PathName(k))>>)]
\* config.get('signature_files', [])
SignatureFilesOrNone(c) ==
  IF Has(c, "signature_files") THEN Val(c, "signature_files").v ELSE <<>>
\* the start of a try of check_signatures, and of a try of the training task
CheckStart(st, pc) ==
  [st EXCEPT !.pc = pc, !.i = 1, !.toTrain = <<>>, !.kept = <<>>, !.failed = {},
             !.skipped = {}, !.q = NoQuery]
TrainStart(st, pc) ==
  [st EXCEPT !.pc = pc, !.i = 1, !.attempted = <<>>, !.results = <<>>]
\* a task that raised is tried again while it has retries left, else it has failed
TaskRaised(st, again, failedPc) ==
  IF st.tries < Retries THEN [again EXCEPT !.tries = st.tries + 1]
  ELSE [st EXCEPT !.pc = failedPc]
\* check_signatures returned: its value goes to the training task through XCom
CheckReturned(st, trainPc) == [TrainStart(st, trainPc) EXCEPT !.tries = 0]
\* one turn of the loop of check_signatures_and_filter after the signature is
\* known: search_runs raises, or the config is kept or left out
CheckTurn(st, signature, queryOk, checkPc, trainPc) ==
  LET hits == SearchRuns(runs, st.activeExp, "signature", signature)
      q == [at |-> checkPc, j |-> st.i, keys |-> <<"signature">>, ok |-> queryOk,
            hits |-> Cardinality(hits), result |-> hits # {}]
      c == Append(st.configs[st.i], <<"signature", [kind |-> "str", v |-> signature]>>)
      st1 == IF hits = {}
             THEN [st EXCEPT !.q = q, !.toTrain = Append(st.toTrain, c),
                             !.kept = Append(st.kept, st.i)]
             ELSE [st EXCEPT !.q = q, !.skipped = st.skipped \cup {st.i}]
  IN IF ~queryOk
     THEN TaskRaised([st EXCEPT !.q = q], CheckStart(st, checkPc), "check_failed")
     ELSE IF st.i < Len(st.configs) THEN [st1 EXCEPT !.i = st.i + 1]
     ELSE CheckReturned(st1, trainPc)

\* ai_drug_training_docker: discover_configs reads every config of the image
DD_Start(p) ==
  /\ proc[p].pc = "idle"
  /\ started < bound.dispatches
  /\ \E dir \in ConfigDirs(bound.files, bound.batch) :
       proc' = [proc EXCEPT ![p] =
                  CheckStart([Fresh EXCEPT !.entry = "docker", !.dir = dir,
                                           !.configs = WithPath(dir),
                                           !.runs0 = Len(runs)], "dd_check")]
  /\ started' = started + 1
  /\ UNCHANGED <<runs, env, fs, last, bound, sigIn, sigOut>>

\* a mutant: a signature that cannot be computed fails the task
DD_OnSignatureFailure_Raise(st) ==
  TaskRaised(st, CheckStart(st, "dd_check"), "check_failed")
\* docker check_signatures_and_filter lines 153-155: print, continue
DD_OnSignatureFailure(st) ==
  LET st1 == [st EXCEPT !.failed = st.failed \cup {st.i}]
  IN IF st.i < Len(st.configs) THEN [st1 EXCEPT !.i = st.i + 1]
     ELSE CheckReturned(st1, "dd_train")

\* docker check_signatures_and_filter lines 134-169: one turn of the loop; the
\* container exits non-zero when compute_training_signature raises in it, or on
\* its own account
DD_Check(p) ==
  /\ proc[p].pc = "dd_check"
  /\ \E ran \in BOOLEAN, queryOk \in BOOLEAN :
       LET st == proc[p]
           c == st.configs[st.i]
           signature == compute_training_signature(c, SignatureFilesOrNone(c), fs)
       IN proc' = [proc EXCEPT ![p] =
                     IF ~ran \/ signature = FileNotFoundError
                     THEN DD_OnSignatureFailure(st)
                     ELSE CheckTurn(st, signature, queryOk, "dd_check", "dd_train")]
  /\ UNCHANGED <<runs, env, fs, started, last, bound, sigIn, sigOut>>

\* a mutant: a failed training is logged and the loop goes on
DD_OnTrainFailure_Continue(st) ==
  IF st.i < Len(st.toTrain) THEN [st EXCEPT !.i = st.i + 1]
  ELSE [st EXCEPT !.pc = "dd_done"]
\* train_models_with_docker lines 204-207: raise Exception out of the loop
DD_OnTrainFailure(st) == TaskRaised(st, TrainStart(st, "dd_train"), "train_failed")

\* train_models_with_docker lines 174-210: return when nothing is to train, else
\* one turn of the loop
DD_Train(p) ==
  /\ proc[p].pc = "dd_train"
  /\ \E returned \in BOOLEAN :
       LET st0 == proc[p]
           st == [st0 EXCEPT !.nTrain = st0.nTrain + 1,
                             !.attempted = Append(st0.attempted, st0.i)]
       IN proc' = [proc EXCEPT ![p] =
                     IF st0.toTrain = <<>> THEN [st0 EXCEPT !.pc = "dd_done"]
                     ELSE IF ~returned THEN DD_OnTrainFailure(st)
                     ELSE IF st.i < Len(st.toTrain)
                     THEN [st EXCEPT !.results = Append(st.results, st.i),
                                     !.i = st.i + 1]
                     ELSE [st EXCEPT !.results = Append(st.results, st.i),
                                     !.pc = "dd_done"]]
  /\ UNCHANGED <<runs, env, fs, started, last, bound, sigIn, sigOut>>

DockerStep(p) == DD_Start(p) \/ DD_Check(p) \/ DD_Train(p)

\* ai_drug_training: pull_data_and_code checks out the revision the run was
\* given, discover_configs reads its configs; whether that revision's
\* models.transformer.train exports compute_training_signature is fixed by it
D_Start(p) ==
  /\ proc[p].pc = "idle"
  /\ started < bound.dispatches
  /\ \E dir \in ConfigDirs(bound.files, bound.batch), importable \in BOOLEAN :
       proc' = [proc EXCEPT ![p] =
                  CheckStart([Fresh EXCEPT !.entry = "dag", !.dir = dir,
                                           !.configs = WithPath(dir),
                                           !.importable = importable,
                                           !.runs0 = Len(runs)], "d_check")]
  /\ started' = started + 1
  /\ UNCHANGED <<runs, env, fs, last, bound, sigIn, sigOut>>

\* check_signatures_and_filter lines 104-129: the import, then one turn of the
\* loop; nothing in it is caught
D_Check(p) ==
  /\ proc[p].pc = "d_check"
  /\ \E queryOk \in BOOLEAN :
       LET st == proc[p]
           c == st.configs[st.i]
           signature == IF Has(c, "signature_files")
                        THEN compute_training_signature(c, SignatureFiles(c), fs)
                        ELSE FileNotFoundError
       IN proc' = [proc EXCEPT ![p] =
                     IF ~st.importable \/ signature = FileNotFoundError
                     THEN TaskRaised(st, CheckStart(st, "d_check"), "check_failed")
                     ELSE CheckTurn(st, signature, queryOk, "d_check", "d_train")]
  /\ UNCHANGED <<runs, env, fs, started, last, bound, sigIn, sigOut>>

\* create_training_tasks: the one training task is bound to one config path
TrainTaskConfig == 1
\* train_single_model lines 131-151: run the script of the task's config, raise
\* when it fails; nothing that check_signatures returned is read
D_Train(p) ==
  /\ proc[p].pc = "d_train"
  /\ \E returned \in BOOLEAN :
       LET st == [proc[p] EXCEPT !.nTrain = @ + 1,
                                 !.attempted = Append(@, TrainTaskConfig)]
       IN proc' = [proc EXCEPT ![p] =
                     IF ~returned
                     THEN TaskRaised(st, TrainStart(st, "d_train"), "train_failed")
                     ELSE [st EXCEPT !.results = Append(st.results, TrainTaskConfig),
                                     !.pc = "d_done"]]
  /\ UNCHANGED <<runs, env, fs, started, last, bound, sigIn, sigOut>>

DagStep(p) == D_Start(p) \/ D_Check(p) \/ D_Train(p)

NoLast ==
  [valid |-> FALSE, entry |-> "none", dir |-> <<>>,
   env |-> [git |-> "none", mtime |-> "none", data |-> "none"],
   queryFailed |-> FALSE, allTrained |-> FALSE]
FileBytes == {Missing, <<"x">>}
InitWith(b) ==
  /\ runs = <<>>
  /\ proc = [p \in Procs |-> Fresh]
  /\ env \in [git : {"g1"}, mtime : {"t1"}, data : {"d1"}]
  /\ fs \in [Paths -> FileBytes]
  /\ started = 0
  /\ last = NoLast
  /\ bound = b
  /\ sigIn = <<>>
  /\ sigOut = <<>>

\* ------------------------------------- compute_training_signature on its own
\* the dicts of at most MaxSigFields of these fields, in every insertion order
SigFields ==
  { <<"data_path", Str("d1")>>, <<"data_path", Str("d2")>>, <<"lr", Str("0.1")>>,
    <<"lr", Str("0.2")>>, <<"model_type", Str("rf")>> }
SigDicts ==
  {d \in SeqsUpTo(SigFields, MaxSigFields) :
     \A m, n \in DOMAIN d : m # n => d[m][1] # d[n][1]}
SigPathLists == {<<>>, <<"a.py">>, <<"b.py">>, <<"a.py", "b.py">>}
SigFileBytes == {Missing, <<>>, <<"x">>, <<"y">>}
\* the same list with the two paths exchanged
Exchange(paths) == [n \in DOMAIN paths |-> IF paths[n] = "a.py" THEN "b.py" ELSE "a.py"]

InitSig ==
  /\ runs = <<>>
  /\ proc = [p \in Procs |-> Fresh]
  /\ env = [git |-> "g1", mtime |-> "t1", data |-> "d1"]
  /\ fs \in [Paths -> SigFileBytes]
  /\ started = 0
  /\ last = NoLast
  /\ bound = [dispatches |-> 0, batch |-> 0, files |-> {}, results |-> {}]
  /\ \E c1 \in SigDicts, c2 \in SigDicts, f1 \in SigPathLists :
       \E f2 \in {f1, Exchange(f1)} :
          sigIn = [c1 |-> c1, f1 |-> f1, c2 |-> c2, f2 |-> f2]
  /\ sigOut = [phase |-> "none", touched |-> FALSE, fs1 |-> fs, r1 |-> <<>>,
               again |-> <<>>, r2 |-> <<>>, k1 |-> <<>>, k2 |-> <<>>]

\* a first call: compute_training_signature(c1, f1)
Sig_First ==
  /\ sigOut.phase = "none"
  /\ sigOut' = [sigOut EXCEPT !.phase = "first",
                  !.r1 = compute_training_signature(sigIn.c1, sigIn.f1, fs)]
  /\ UNCHANGED <<runs, proc, env, fs, started, last, bound, sigIn>>

\* between the calls a listed file is rewritten with other bytes
Sig_Rewrite ==
  /\ sigOut.phase = "first"
  /\ ~sigOut.touched
  /\ \E f \in Paths :
       fs' = [fs EXCEPT ![f] = IF fs[f] = <<"x">> THEN <<"y">> ELSE <<"x">>]
  /\ sigOut' = [sigOut EXCEPT !.touched = TRUE]
  /\ UNCHANGED <<runs, proc, env, started, last, bound, sigIn>>

\* between the calls the last byte of a listed file is moved to the front of the
\* file listed next
Sig_MoveBytes ==
  /\ sigOut.phase = "first"
  /\ ~sigOut.touched
  /\ \E n \in DOMAIN sigIn.f1 :
       LET from == sigIn.f1[n]
       IN /\ n + 1 \in DOMAIN sigIn.f1
          /\ fs[from] \notin {Missing, <<>>}
          /\ fs[sigIn.f1[n + 1]] # Missing
          /\ fs' = [fs EXCEPT ![from] = SubSeq(fs[from], 1, Len(fs[from]) - 1),
                              ![sigIn.f1[n + 1]] = <<fs[from][Len(fs[from])]>> \o @]
  /\ sigOut' = [sigOut EXCEPT !.touched = TRUE]
  /\ UNCHANGED <<runs, proc, env, started, last, bound, sigIn>>

\* the call repeated, the call on the second config, and
\* compute_composite_run_key on both configs
Sig_Again ==
  /\ sigOut.phase = "first"
  /\ sigOut' = [sigOut EXCEPT !.phase = "again",
                  !.again = compute_training_signature(sigIn.c1, sigIn.f1, fs),
                  !.r2 = compute_training_signature(sigIn.c2, sigIn.f2, fs),
                  !.k1 = compute_composite_run_key(sigIn.c1, env),
                  !.k2 = compute_composite_run_key(sigIn.c2, env)]
  /\ UNCHANGED <<runs, proc, env, fs, started, last, bound, sigIn>>

NextSig == Sig_First \/ Sig_Rewrite \/ Sig_MoveBytes \/ Sig_Again
SpecSig == InitSig /\ [][NextSig]_vars

\* one dispatch per process, the two may overlap, each over a directory of one file
Init ==
  InitWith([dispatches |-> Cardinality(Procs), batch |-> 1, files |-> Catalogue,
            results |-> Results])
Next == \E p \in Procs : Step(p)
Spec == Init /\ [][Next]_vars

\* dispatches one after the other: each starts after the one before has ended;
\* the files parse and the training functions keep the contract
InitSeq ==
  InitWith([dispatches |-> MaxDispatches, batch |-> MaxBatch,
            files |-> {YamlRF, YamlXGB, YamlNoType}, results |-> {"valid"}])
NextSeq == Step(1)
SpecSeq == InitSeq /\ [][NextSeq]_vars

\* one dispatch over a longer batch; the files parse and the training functions
\* keep the contract
InitBatch ==
  InitWith([dispatches |-> 1, batch |-> MaxSingleBatch,
            files |-> {YamlRF, YamlXGB, YamlNoType}, results |-> {"valid"}])
NextBatch == Step(1)
SpecBatch == InitBatch /\ [][NextBatch]_vars

\* one dispatch over a directory of any files of the catalogue
InitDiscover ==
  InitWith([dispatches |-> 1, batch |-> MaxSingleBatch, files |-> Catalogue,
            results |-> {"valid"}])
NextDiscover == Step(1)
SpecDiscover == InitDiscover /\ [][NextDiscover]_vars

\* dispatches of main one after the other over one file, the data file being
\* edited or touched in between; git may be unavailable
Idle == \A p \in Procs : proc[p].pc = "idle"
Other(x, a, b) == IF x = a THEN b ELSE a
\* data/data_200.csv rewritten with its modification time kept
Data_Edit ==
  /\ Idle
  /\ env' = [env EXCEPT !.data = Other(@, "d1", "d2")]
  /\ UNCHANGED <<runs, proc, fs, started, last, bound, sigIn, sigOut>>
\* data/data_200.csv touched: a new modification time, the same content
Data_Touch ==
  /\ Idle
  /\ env' = [env EXCEPT !.mtime = Other(@, "t1", "t2")]
  /\ UNCHANGED <<runs, proc, fs, started, last, bound, sigIn, sigOut>>
InitData ==
  /\ runs = <<>>
  /\ proc = [p \in Procs |-> Fresh]
  /\ env \in [git : {"g1", Unavailable}, mtime : {"t1"}, data : {"d1"}]
  /\ fs \in [Paths -> FileBytes]
  /\ started = 0
  /\ last = NoLast
  /\ bound = [dispatches |-> MaxDispatches, batch |-> 1, files |-> {YamlRF},
              results |-> {"valid"}]
  /\ sigIn = <<>>
  /\ sigOut = <<>>
NextData == Step(1) \/ Data_Edit \/ Data_Touch
SpecData == InitData /\ [][NextData]_vars

\* one run of a DAG, or one dispatch of the orchestrator, against a registry (a
\* server that outlives the runs) that is empty or already holds, in the
\* experiment the DAGs search, a finished run tagged with the signature of the
\* first config
Registered(c, f) ==
  [NewRun(NoExperiment, 0, 0, 0) EXCEPT
     !.status = "FINISHED",
     !.sig = compute_training_signature(c, SignatureFilesOrNone(c), f)]
InitDag ==
  /\ proc = [p \in Procs |-> Fresh]
  /\ env \in [git : {"g1"}, mtime : {"t1"}, data : {"d1"}]
  /\ fs \in [Paths -> FileBytes]
  /\ runs \in {<<>>} \cup
             {<<Registered(WithPath(<<c>>)[1], fs)>> :
                c \in {d \in {YamlRF, YamlXGB} : AllReadable(fs, SignatureFiles(d))}}
  /\ started = 0
  /\ last = NoLast
  /\ bound = [dispatches |-> 1, batch |-> MaxBatch, files |-> {YamlRF, YamlXGB},
              results |-> {"valid"}]
  /\ sigIn = <<>>
  /\ sigOut = <<>>
NextDag == DagStep(1) \/ DockerStep(1) \/ Step(1)
SpecDag == InitDag /\ [][NextDag]_vars

\* one dispatch over copies of one file, whose every step is eventually taken:
\* the loops of main and of train_multiple_configs are sequential code over
\* finite lists
InitLive ==
  InitWith([dispatches |-> 1, batch |-> MaxSingleBatch, files |-> {YamlRF},
            results |-> {"valid"}])
NextLive == Step(1)
SpecLive == InitLive /\ [][NextLive]_vars /\ WF_vars(NextLive)

\* ------------------------------------------------------------------ claims
IdentityTagged(r) == r.ckey # NoTag \/ r.sig # NoTag
IdentityTag(r) ==
  IF r.ckey # NoTag THEN <<"composite_run_key">> \o r.ckey
  ELSE <<"signature">> \o r.sig
RunningOf(p) == {n \in DOMAIN runs : runs[n].status = "RUNNING" /\ runs[n].by = p}
InRunScope(p) == proc[p].pc \in {"rt_tag", "rt_train", "rt_log"}
Unreadable(c) == ~AllReadable(fs, SignatureFiles(c))

\* C1 (as claimed): run_training goes on to train only after a not-found answer,
\* and over dispatches run one after the other in which every registry query
\* succeeds no two run records carry the same identity tag.
C1_ExactlyOncePerIdentity ==
  /\ \A p \in Procs : proc[p].pc = "rt_load" => ~proc[p].q.result
  /\ ~last.queryFailed =>
        \A m, n \in DOMAIN runs :
           (m # n /\ IdentityTagged(runs[m]) /\ IdentityTagged(runs[n]))
              => IdentityTag(runs[m]) # IdentityTag(runs[n])

\* C2 (as claimed): a dispatch of main that follows a dispatch of main over the same
\* configs/ in which every config trained successfully calls no training function
\* and writes no run record (no registry query having failed).
C2_SecondDispatchSkipsAll ==
  \A p \in Procs :
     ( /\ proc[p].pc = "done"
       /\ proc[p].entry = "main"
       /\ last.valid /\ last.entry = "main" /\ last.allTrained
       /\ ~last.queryFailed
       /\ last.dir = proc[p].dir )
     => (proc[p].nTrain = 0 /\ Len(runs) = proc[p].runs0)

\* C3: an exception while a config is processed never leaves train_multiple_configs;
\* when it returns every config was attempted once, in order, and the list returned
\* holds exactly the configs that neither raised nor were skipped, one finished run
\* each.
C3_PartialFailureIsolation ==
  \A p \in Procs :
     /\ proc[p].pc # "crashed"
     /\ proc[p].failed \cap proc[p].skipped = {}
     /\ (proc[p].pc = "done" /\ proc[p].toTrain # <<>>) =>
          /\ proc[p].attempted = [j \in 1..Len(proc[p].toTrain) |-> j]
          /\ proc[p].results =
               SelectSeq(proc[p].attempted,
                         LAMBDA j : j \notin proc[p].failed \cup proc[p].skipped)
          /\ \A j \in 1..Len(proc[p].toTrain) :
                (\E n \in DOMAIN runs :
                    /\ n > proc[p].runs0 /\ runs[n].j = j
                    /\ runs[n].status = "FINISHED" /\ runs[n].trainOk)
                <=> (\E k \in DOMAIN proc[p].results : proc[p].results[k] = j)
C3_Witness ==
  \E p \in Procs :
     /\ proc[p].pc = "done"
     /\ Len(proc[p].toTrain) = 3
     /\ proc[p].failed = {2}
     /\ proc[p].results = <<1, 3>>
     /\ \E n \in DOMAIN runs : runs[n].j = 2 /\ runs[n].trainCalls = 1 /\ ~runs[n].trainOk

\* C4 (as claimed): a closed run record carries an identity tag only if the training
\* function of its config returned.
C4_TaggedOnlyOnSuccess ==
  \A n \in DOMAIN runs :
     (runs[n].status # "RUNNING" /\ IdentityTagged(runs[n])) => runs[n].trainOk

\* C5: run_exists_with_tag answers True exactly when the query succeeded and matched
\* a run; after a failed query the config is neither skipped nor the batch aborted:
\* main keeps it in configs_to_train and run_training goes on to load and train it.
C5_QueryFailureMeansTrain ==
  \A p \in Procs :
     LET q == proc[p].q
     IN /\ q.result = (q.ok /\ q.hits > 0)
        /\ (q.at = "rt_check" /\ ~q.ok) => (proc[p].pc = "rt_load" /\ proc[p].i = q.j)
        /\ (q.at = "precheck" /\ ~q.ok) =>
              /\ proc[p].kept # <<>>
              /\ proc[p].kept[Len(proc[p].kept)] = q.j
              /\ proc[p].pc \in {"precheck", "rt_check"}
C5_Witness ==
  \E p \in Procs :
     /\ proc[p].q.at = "rt_check" /\ ~proc[p].q.ok /\ proc[p].q.hits > 0
     /\ proc[p].pc = "rt_load"
     /\ proc[p].i = 2

\* C6: nothing a dispatch does waits for another dispatch: a process that has passed
\* its existence check can always open its run, whatever the other process holds.
C6_NoMutualExclusion ==
  \A p \in Procs :
     (proc[p].pc = "rt_start" /\ Len(runs) < MaxRuns) => ENABLED RT_StartRun(p)
\* two finished runs of two processes carry the same tag, and neither record
\* existed when either process made its check
C6_Witness ==
  \E m, n \in DOMAIN runs :
     /\ m < n
     /\ runs[m].by # runs[n].by
     /\ runs[m].ckey # NoTag /\ runs[m].ckey = runs[n].ckey
     /\ runs[m].seen < m /\ runs[n].seen < m
     /\ runs[m].status = "FINISHED" /\ runs[n].status = "FINISHED"
     /\ runs[m].trainCalls = 1 /\ runs[n].trainCalls = 1

\* C7: a process has a run open only between start_run and the end of the with
\* block, at most one, and none once run_training has returned or raised.
C7_RunScopeClosed ==
  \A p \in Procs :
     /\ Cardinality(RunningOf(p)) <= 1
     /\ InRunScope(p) => RunningOf(p) = {proc[p].run}
     /\ ~InRunScope(p) => (proc[p].run = 0 /\ RunningOf(p) = {})
C7_Witness ==
  \E p \in Procs :
     /\ proc[p].pc = "done"
     /\ \E n \in DOMAIN runs : runs[n].status = "FAILED" /\ runs[n].sig = NoTag
     /\ \E n \in DOMAIN runs :
           runs[n].status = "FAILED" /\ runs[n].trainCalls = 1 /\ ~runs[n].trainOk
     /\ \E n \in DOMAIN runs : runs[n].status = "FAILED" /\ runs[n].trainOk

Trainings(rs) == [n \in DOMAIN rs |-> rs[n].trainCalls]
RECURSIVE Sum(_)
Sum(q) == IF q = <<>> THEN 0 ELSE q[1] + Sum(Tail(q))
NormFields(c) == {c[n] : n \in {m \in DOMAIN c : c[m][1] # "data_path"}}
BytesOf(paths) == [n \in DOMAIN paths |-> fs[paths[n]]]
C10_Determinism ==
  sigOut.phase = "again" =>
     /\ ~sigOut.touched => sigOut.again = sigOut.r1
     /\ (NormFields(sigIn.c1) = NormFields(sigIn.c2)
           /\ BytesOf(sigIn.f1) = BytesOf(sigIn.f2))
        => sigOut.again = sigOut.r2
C10_Witness ==
  /\ sigOut.phase = "again"
  /\ Len(sigIn.c1) = 2 /\ Len(sigIn.c2) = 2
  /\ sigIn.c1[1] = sigIn.c2[2] /\ sigIn.c1[2] = sigIn.c2[1]
  /\ sigIn.c1[1][1] # "data_path" /\ sigIn.c1[2][1] # "data_path"
  /\ sigIn.f1 # sigIn.f2 /\ BytesOf(sigIn.f1) = BytesOf(sigIn.f2)
  /\ sigOut.r2 # FileNotFoundError
  /\ sigOut.again = sigOut.r2

\* C11 (as claimed): when the bytes of a listed file have changed between two calls
\* on the same config and list (bytes moved from one file to the next included),
\* or the two configs differ in a field other than data_path, the two digests
\* differ.
BytesIn(f, paths) == [n \in DOMAIN paths |-> f[paths[n]]]
C11_IdentitySensitivity ==
  (sigOut.phase = "again" /\ sigOut.again # FileNotFoundError) =>
     /\ (sigOut.r1 # FileNotFoundError
           /\ BytesIn(sigOut.fs1, sigIn.f1) # BytesIn(fs, sigIn.f1))
        => sigOut.again # sigOut.r1
     /\ (sigOut.r2 # FileNotFoundError
           /\ NormFields(sigIn.c1) # NormFields(sigIn.c2))
        => sigOut.again # sigOut.r2

\* C12 (as claimed): two configs that differ in nothing but data_path get the same
\* legacy signature over the same file bytes and the same composite run key.
C12_ExclusionCorrectness ==
  (sigOut.phase = "again" /\ NormFields(sigIn.c1) = NormFields(sigIn.c2)) =>
     /\ BytesOf(sigIn.f1) = BytesOf(sigIn.f2) => sigOut.again = sigOut.r2
     /\ sigOut.k1 = sigOut.k2

\* C13: a file in which model_type, model_script or signature_files is missing or
\* empty never becomes a config: the configs of a dispatch all carry the three
\* fields non-empty and are no more than the valid files, and every query, run
\* record and training call belongs to one of them.
RequiredPresent(d) ==
  \A k \in {"model_type", "model_script", "signature_files"} :
     Has(d, k) /\ Val(d, k).v # <<>>
RunsOf(p) == {n \in DOMAIN runs : runs[n].by = p /\ n > proc[p].runs0}
C13_FailFastConstruction ==
  \A p \in Procs :
     LET st == proc[p]
     IN /\ \A k \in DOMAIN st.configs : RequiredPresent(st.configs[k])
        /\ \A k \in DOMAIN st.toTrain : RequiredPresent(st.toTrain[k])
        /\ Len(st.configs) <= Cardinality({k \in DOMAIN st.dir : RequiredPresent(st.dir[k])})
        /\ st.q.at = "precheck" => st.q.j \in DOMAIN st.configs
        /\ st.q.at = "rt_check" => st.q.j \in DOMAIN st.toTrain
        /\ st.pc # "idle" =>
              /\ \A n \in RunsOf(p) : runs[n].j \in DOMAIN st.toTrain
              /\ st.nTrain <= Len(st.toTrain)
C13_Witness ==
  \E p \in Procs :
     /\ proc[p].pc = "done"
     /\ proc[p].dir = <<YamlNoType, YamlRF, YamlNoFiles>>
     /\ Len(proc[p].configs) = 1
     /\ proc[p].results = <<1>>
     /\ Len(runs) = 1

\* C14 (as claimed): a file whose signature_files is present and empty, the other
\* two fields being non-empty, becomes a config of the dispatch.
C14_EmptySignatureFilesAccepted ==
  \A p \in Procs :
     (proc[p].entry # "none" /\ proc[p].pc \notin {"idle", "aborted"}) =>
        \A k \in DOMAIN proc[p].dir :
           LET d == proc[p].dir[k]
           IN (Has(d, "signature_files") /\ Has(d, "model_type") /\ Has(d, "model_script")
                 /\ Val(d, "model_type").v # <<>> /\ Val(d, "model_script").v # <<>>)
              => \E m \in DOMAIN proc[p].configs :
                    SignatureFiles(proc[p].configs[m]) = SignatureFiles(d)

\* C15 (as claimed): discovery never aborts, and its configs are those of every
\* file of the directory that parses and validates, in order.
C15_DiscoveryContinues ==
  \A p \in Procs :
     proc[p].entry = "main" =>
        /\ proc[p].pc # "aborted"
        /\ proc[p].configs =
              Discover(SelectSeq(proc[p].dir, LAMBDA d : d # YAMLError))

\* C16 (as claimed): no run record is registered for a config whose training
\* function returned a malformed result, and the config gives no result.
C16_MalformedResultRejected ==
  \A n \in DOMAIN runs :
     runs[n].status # "RUNNING" => runs[n].result \notin {"bad_metrics", "no_model"}

\* C17 (as claimed): in the summary, processed is the number of valid configs,
\* trained the number of results, skipped the number of configs found in the
\* registry, and processed = trained + skipped + failed.
FoundInRegistry(st) == (Len(st.configs) - Len(st.kept)) + Cardinality(st.skipped)
C17_SummaryCounts ==
  \A p \in Procs :
     (proc[p].pc = "done" /\ proc[p].entry = "main" /\ proc[p].toTrain # <<>>) =>
        LET sm == Summary(proc[p])
        IN /\ sm.processed = Len(proc[p].configs)
           /\ sm.trained = Len(proc[p].results)
           /\ sm.skipped = FoundInRegistry(proc[p])
           /\ sm.processed = sm.trained + sm.skipped + Cardinality(proc[p].failed)

\* C18 (as claimed): main ends with a non-zero status when discovery found no
\* valid config, and with status zero when at least one config gave a result.
C18_ExitStatus ==
  \A p \in Procs :
     (proc[p].pc = "done" /\ proc[p].entry = "main") =>
        /\ proc[p].configs = <<>> => ExitCode(proc[p]) # 0
        /\ proc[p].results # <<>> => ExitCode(proc[p]) = 0

\* C19: the configs of train_multiple_configs are checked once each, in list
\* order; a config found in the registry gets no run and no training; metrics are
\* logged only to a run whose training returned; at the end every config is
\* exactly one of skipped, failed, trained; and every batch that starts ends with
\* each of its configs in one of the three.
Trained(st) == {st.results[k] : k \in DOMAIN st.results}
C19_Safety(p) ==
  LET st == proc[p]
  IN /\ st.attempted = [j \in 1..Len(st.attempted) |-> j]
     /\ st.pc = "rt_check" => st.i = Len(st.attempted) + 1
     /\ st.pc \in {"rt_load", "rt_start", "rt_tag", "rt_train", "rt_log"}
           => st.i = Len(st.attempted)
     /\ st.skipped \cap st.failed = {}
     /\ st.skipped \cap Trained(st) = {}
     /\ st.failed \cap Trained(st) = {}
     /\ st.pc # "idle" =>
           \A n \in RunsOf(p) :
              /\ runs[n].j \notin st.skipped
              /\ runs[n].metrics => (runs[n].trainCalls = 1 /\ runs[n].trainOk)
              /\ runs[n].j \in Trained(st) => runs[n].metrics
     /\ (st.pc = "done" /\ st.toTrain # <<>>) =>
           st.skipped \cup st.failed \cup Trained(st) = 1..Len(st.toTrain)
C19_StateMachine ==
  /\ [](\A p \in Procs : C19_Safety(p))
  /\ (\E p \in Procs : proc[p].pc = "rt_check")
        ~> (\E p \in Procs :
              /\ proc[p].pc = "done"
              /\ proc[p].skipped \cup proc[p].failed \cup Trained(proc[p])
                    = 1..Len(proc[p].toTrain))
C19_Witness ==
  \E p \in Procs :
     /\ proc[p].pc = "done"
     /\ Trained(proc[p]) = {1}
     /\ proc[p].skipped = {2}
     /\ proc[p].failed = {3}

KeyOf(c) == Val(c, "composite_run_key").v
C21_DataThroughMtimeOnly ==
  \A p \in Procs :
     (proc[p].pc = "done" /\ proc[p].entry = "main") =>
        /\ \A k \in DOMAIN proc[p].toTrain :
              /\ Has(proc[p].toTrain[k], "composite_run_key")
              /\ env.git = Unavailable => KeyOf(proc[p].toTrain[k])[1] = "no-git"
        /\ ( /\ last.valid /\ last.entry = "main" /\ last.allTrained
              /\ ~last.queryFailed /\ last.dir = proc[p].dir ) =>
              /\ ( /\ last.env.git = env.git /\ last.env.mtime = env.mtime
                    /\ last.env.data # env.data )
                 => (proc[p].nTrain = 0 /\ Len(runs) = proc[p].runs0)
              /\ last.env.mtime # env.mtime
                 => Len(proc[p].toTrain) = Len(proc[p].configs)

\* C22 (as claimed): the signature tag of a run is the signature of its config's
\* declared fields (the fields of its file) over its signature_files.
Declared(c) == SelectSeq(c, LAMBDA kv : kv[1] # "composite_run_key")
C22_LegacySignatureTag ==
  \A p \in Procs :
     proc[p].pc # "idle" =>
        \A n \in RunsOf(p) :
           runs[n].sig # NoTag =>
              runs[n].sig =
                 compute_training_signature(Declared(proc[p].toTrain[runs[n].j]),
                    SignatureFiles(proc[p].toTrain[runs[n].j]), fs)

C24_FailurePolicies ==
  [][ \A p \in Procs :
         /\ (/\ proc[p].entry = "docker"
             /\ proc[p].pc = "dd_train"
             /\ proc[p].toTrain # <<>>
             /\ proc'[p] # proc[p]
             /\ proc'[p].results = proc[p].results)
            => \/ /\ proc'[p].pc = "train_failed"
                  /\ proc'[p].attempted = [k \in 1..proc[p].i |-> k]
               \/ /\ proc'[p].pc = "dd_train"
                  /\ proc'[p].i = 1
                  /\ proc'[p].attempted = <<>>
                  /\ proc'[p].tries = proc[p].tries + 1
         /\ (/\ proc[p].entry \in {"main", "api"}
             /\ proc'[p].failed # proc[p].failed
             /\ proc[p].i < Len(proc[p].toTrain))
            => /\ proc'[p].pc = "rt_check"
               /\ proc'[p].i = proc[p].i + 1
               /\ proc'[p].failed = proc[p].failed \cup {proc[p].i} ]_vars
C24_Witness ==
  \E p \in Procs :
     /\ proc[p].entry = "docker"
     /\ proc[p].pc = "train_failed"
     /\ Len(proc[p].toTrain) = 2
     /\ proc[p].attempted = <<1>>
     /\ proc[p].results = <<>>

\* C25: in check_signatures of the Docker DAG a config whose signature could not
\* be computed is left out of configs_to_train and is never trained, the configs
\* after it are still checked, the task fails only on a failed registry query,
\* and the run adds no run record.
SignatureFailed(st) == st.failed
C25_SignatureFailureOnlyLogged ==
  \A p \in Procs :
     proc[p].entry = "docker" =>
        LET st == proc[p]
            keptSet == {st.kept[k] : k \in DOMAIN st.kept}
            checked == keptSet \cup st.skipped \cup SignatureFailed(st)
        IN /\ \A j \in DOMAIN st.configs :
                Unreadable(st.configs[j]) =>
                   /\ j \notin keptSet
                   /\ (st.pc \notin {"dd_check", "check_failed"} \/ j < st.i)
                         => j \in SignatureFailed(st)
           /\ Len(st.toTrain) = Len(st.kept)
           /\ \A k \in DOMAIN st.toTrain :
                 st.kept[k] \notin SignatureFailed(st)
                    /\ Val(st.toTrain[k], "config_path") =
                          Val(st.configs[st.kept[k]], "config_path")
           /\ st.pc \in {"dd_check", "check_failed"} => checked = 1..(st.i - 1)
           /\ st.pc \in {"dd_train", "dd_done", "train_failed"}
                 => checked = DOMAIN st.configs
           /\ st.pc = "check_failed" => (st.q.at = "dd_check" /\ ~st.q.ok)
           /\ Len(runs) = st.runs0
C25_Witness ==
  \E p \in Procs :
     /\ proc[p].entry = "docker"
     /\ proc[p].pc = "dd_done"
     /\ Len(proc[p].configs) = 2
     /\ proc[p].failed = {1}
     /\ proc[p].kept = <<2>>
     /\ proc[p].results = <<1>>

\* C26: a step of main's pre-check, of the existence check (a skip, a signature
\* that cannot be computed) or of the load of the training function, whether it
\* returns or raises, leaves the run records as they were.
C26_NoRecordBeforeRunScope ==
  [][ \A p \in Procs :
         (proc[p].pc \in {"precheck", "rt_check", "rt_load"} /\ proc'[p] # proc[p])
            => runs' = runs ]_vars
C26_Witness ==
  \E p \in Procs :
     /\ proc[p].pc = "done"
     /\ Len(proc[p].toTrain) = 3
     /\ Trained(proc[p]) = {1}
     /\ proc[p].skipped = {2}
     /\ proc[p].failed = {3}
     /\ Len(runs) = 1
====
